---- MODULE Spec2Model ----
(***************************************************************************)
(* Tenant resource lifecycle and conversation-state cache of the invoice   *)
(* search backend: the in-memory session store (src/db/redis_service.py),  *)
(* the model registry, loader and provisioner (src/models/registry.py,     *)
(* src/models/loader.py, src/config/startup.py) and the cleanup daemon and *)
(* tenant middleware (main.py).                                            *)
(*                                                                         *)
(* Scheduling.  The daemon and the middleware run on the asyncio event     *)
(* loop; a sweep contains no await, so no middleware call happens inside a *)
(* sweep.  The synchronous endpoints run on worker threads, which          *)
(* interleave with each other and with the sweep between any two calls.    *)
(* Every RedisService method body runs under the class-wide RLock.         *)
(*                                                                         *)
(* Time.  The wall clock advances in steps of Tick seconds, and only while *)
(* no request is in flight and the daemon sleeps: a request and a sweep    *)
(* take far less than one step.  SpecSlow alone lets a handler wait.       *)
(***************************************************************************)
EXTENDS Integers, Sequences, FiniteSets, TLC

\* ------------------------------------------------------------------ bounds
Tick == 30000
MaxTicks == 4
MaxMsgs == 2
MaxLoads == 2
MaxLog == 4

StartTime == Tick
MaxTime == StartTime + MaxTicks * Tick

\* ------------------------------------------------------- program constants
memory_ttl == 72000
BootstrapDelay == 30
ShippedTenantIdle == 84000
ShippedCheckInterval == 84000
ShippedSessionIdle == 84000

\* ------------------------------------------------------------- identifiers
\* Ids are strings, modelled as sequences of tokens so that the f-string keys
\* of the store can be built and matched by prefix as the code does.
Threads == {"w1", "w2"}
NoThread == "none"
T1 == <<"t1">>
T2 == <<"t2">>
S1 == <<"s1">>
S2 == <<"s2">>
PlainTenants == {T1, T2}
PlainSessions == {S1, S2}
Purposes == {"technical", "narrative-summary", "chart"}
NoTime == -1

\* ------------------------------------------------------ dictionary helpers
EmptyMap == [x \in {} |-> 0]

Put(f, k, v) == [x \in (DOMAIN f) \cup {k} |-> IF x = k THEN v ELSE f[x]]

Pop(f, k) == [x \in (DOMAIN f) \ {k} |-> f[x]]

PopAll(f, ks) == [x \in (DOMAIN f) \ ks |-> f[x]]

Get(f, k, default) == IF k \in DOMAIN f THEN f[k] ELSE default

\* Python truthiness of an Optional[float]: None and 0.0 are both falsy.
Falsy(x) == x = NoTime \/ x = 0

StartsWith(s, p) == Len(s) >= Len(p) /\ SubSeq(s, 1, Len(p)) = p

EndsWith(s, p) == Len(s) >= Len(p) /\ SubSeq(s, Len(s) - Len(p) + 1, Len(s)) = p

\* ------------------------------------------------------------------- state
VARIABLES
    now,                        \* time.time()
    env,                        \* what the deployment fixes: the worker threads,
                                \* the ids requests carry, model_config.json and
                                \* the cleanup configuration of main.py
    lock,                       \* RedisService._lock: owning thread or NoThread
    redis,                      \* RedisService class attributes (the five dicts)
    models,                     \* ModelRegistry._models
    tenant_services,            \* ModelStartup._tenant_services
    provisionings,              \* number of load_tenant_models calls so far
    generated,                  \* number of session ids generated so far
    th,                         \* worker threads: position and locals
    d,                          \* cleanup daemon: position and locals
    hist                        \* history: what was called and removed so far

provVars == <<models, tenant_services, provisionings>>
vars == <<now, env, lock, redis, provVars, generated, th, d, hist>>

\* ------------------------------------------------------------ RedisService
get_messages_key(TenantId, SessionId) ==
    <<"ivpsql", ":">> \o TenantId \o <<":", "session", ":">> \o SessionId
        \o <<":", "messages">>

\* str.strip() of an id is empty: the id has no token other than blanks.
Blank(id) == \A i \in 1..Len(id) : id[i] = " "

\* Mutant: the ids are tested for emptiness only, without strip().
validate_unstripped(TenantId, SessionId) == TenantId # <<>> /\ SessionId # <<>>

validate_tenant_session(TenantId, SessionId) == ~Blank(TenantId) /\ ~Blank(SessionId)

expire_if_needed(R, key, t) ==
    LET expires_at == Get(R.key_expires_at, key, NoTime) IN
    IF ~Falsy(expires_at) /\ t > expires_at
    THEN [R EXCEPT !.messages_by_key = Pop(@, key), !.key_expires_at = Pop(@, key)]
    ELSE R

incr_active_sessions(R, tenant_id) ==
    [R EXCEPT !.active_sessions_by_tenant =
                  Put(@, tenant_id, Get(@, tenant_id, 0) + 1)]

set_session_activity(R, tenant_id, session_id, t) ==
    [R EXCEPT !.session_activity = Put(@, <<tenant_id, session_id>>, t)]

\* store_message, from taking the lock to computing the index (lines 90-98).
store_message_begin(R, TenantId, SessionId, t) ==
    LET key == get_messages_key(TenantId, SessionId)
        R1 == expire_if_needed(R, key, t)
        R2 == IF key \in DOMAIN R1.messages_by_key THEN R1
              ELSE [R1 EXCEPT !.messages_by_key = Put(@, key, <<>>)]
    IN  IF Len(R2.messages_by_key[key]) = 0
        THEN set_session_activity(incr_active_sessions(R2, TenantId),
                                  TenantId, SessionId, t)
        ELSE R2

\* content: None is {} and a string c is {c}; metadata likewise.
ContentStr(content) == IF content = {} THEN "" ELSE CHOOSE c \in content : TRUE

MetadataOrEmpty(metadata) ==
    IF metadata = {} THEN EmptyMap ELSE CHOOSE m \in metadata : TRUE

Message(index, inp, t) ==
    [index |-> index, role |-> inp.role, content |-> ContentStr(inp.content),
     timestamp |-> t, metadata |-> MetadataOrEmpty(inp.metadata)]

\* Mutant: store_message puts the new message in front of the log.
store_message_end_in_front(R, TenantId, SessionId, index, inp, t) ==
    LET key == get_messages_key(TenantId, SessionId) IN
    [R EXCEPT !.messages_by_key =
                  Put(@, key, <<Message(index, inp, t)>> \o Get(@, key, <<>>)),
              !.key_expires_at = Put(@, key, t + memory_ttl)]

\* store_message, from building the message to the return (lines 99-110).
store_message_end(R, TenantId, SessionId, index, inp, t) ==
    LET key == get_messages_key(TenantId, SessionId) IN
    [R EXCEPT !.messages_by_key =
                  Put(@, key, Append(Get(@, key, <<>>), Message(index, inp, t))),
              !.key_expires_at = Put(@, key, t + memory_ttl)]

\* The list get_all_messages returns, once _expire_if_needed has run.
get_all_messages(R, TenantId, SessionId, t) ==
    LET key == get_messages_key(TenantId, SessionId) IN
    Get(expire_if_needed(R, key, t).messages_by_key, key, <<>>)

\* Mutant: delete_session leaves the session's activity record.
delete_session_keeps_activity(R, TenantId, SessionId) ==
    LET key == get_messages_key(TenantId, SessionId)
        R2 == IF key \in DOMAIN R.messages_by_key
              THEN [R EXCEPT !.messages_by_key = Pop(@, key),
                             !.key_expires_at = Pop(@, key)]
              ELSE R
        n == Get(R2.active_sessions_by_tenant, TenantId, 0)
    IN  IF n > 0
        THEN IF n - 1 <= 0
             THEN [R2 EXCEPT !.active_sessions_by_tenant = Pop(@, TenantId)]
             ELSE [R2 EXCEPT !.active_sessions_by_tenant = Put(@, TenantId, n - 1)]
        ELSE R2

delete_session(R, TenantId, SessionId) ==
    LET key == get_messages_key(TenantId, SessionId)
        R1 == IF key \in DOMAIN R.messages_by_key
              THEN [R EXCEPT !.messages_by_key = Pop(@, key),
                             !.key_expires_at = Pop(@, key)]
              ELSE R
        R2 == [R1 EXCEPT !.session_activity = Pop(@, <<TenantId, SessionId>>)]
        n == Get(R2.active_sessions_by_tenant, TenantId, 0)
    IN  IF n > 0
        THEN IF n - 1 <= 0
             THEN [R2 EXCEPT !.active_sessions_by_tenant = Pop(@, TenantId)]
             ELSE [R2 EXCEPT !.active_sessions_by_tenant = Put(@, TenantId, n - 1)]
        ELSE R2

delete_session_ret(R, TenantId, SessionId) ==
    IF get_messages_key(TenantId, SessionId) \in DOMAIN R.messages_by_key THEN 1 ELSE 0

get_session_keys(R, tenant_id) ==
    {k[2] : k \in {x \in DOMAIN R.session_activity : x[1] = tenant_id}}

get_session_last_activity(R, tenant_id, session_id) ==
    Get(R.session_activity, <<tenant_id, session_id>>, NoTime)

get_tenant_last_activity(R, tenant_id) == Get(R.tenant_activity, tenant_id, NoTime)

update_tenant_activity(R, tenant_id, t) ==
    [R EXCEPT !.tenant_activity = Put(@, tenant_id, t)]

\* Mutant: the purge leaves the tenant's session activity records behind.
delete_all_tenant_data_keeps_sessions(R, tenant_id) ==
    LET prefix == <<"ivpsql", ":">> \o tenant_id \o <<":">>
        keys_to_delete == {k \in DOMAIN R.messages_by_key : StartsWith(k, prefix)}
    IN  [R EXCEPT !.messages_by_key = PopAll(@, keys_to_delete),
                  !.key_expires_at = PopAll(@, keys_to_delete),
                  !.active_sessions_by_tenant = Pop(@, tenant_id),
                  !.tenant_activity = Pop(@, tenant_id)]

delete_all_tenant_data(R, tenant_id) ==
    LET prefix == <<"ivpsql", ":">> \o tenant_id \o <<":">>
        keys_to_delete == {k \in DOMAIN R.messages_by_key : StartsWith(k, prefix)}
    IN  [R EXCEPT !.messages_by_key = PopAll(@, keys_to_delete),
                  !.key_expires_at = PopAll(@, keys_to_delete),
                  !.session_activity =
                      PopAll(@, {k \in DOMAIN R.session_activity : k[1] = tenant_id}),
                  !.active_sessions_by_tenant = Pop(@, tenant_id),
                  !.tenant_activity = Pop(@, tenant_id)]

\* The keys whose expiry time has passed.
DueKeys(R, t) ==
    {k \in DOMAIN R.messages_by_key :
         ~Falsy(Get(R.key_expires_at, k, NoTime)) /\ t > R.key_expires_at[k]}

\* get_tenant_sessions iterates self._messages_by_key.keys() and calls
\* _expire_if_needed on each key: if a key is due, the pop changes the dict
\* under the iterator, which raises RuntimeError at its next step; otherwise
\* the ids cut out of the keys with the tenant's prefix and the suffix.
get_tenant_sessions(R, TenantId, t) ==
    LET prefix == <<"ivpsql", ":">> \o TenantId \o <<":", "session", ":">>
        suffix == <<":", "messages">>
    IN  [raises |-> DueKeys(R, t) # {},
         session_ids |->
             IF DueKeys(R, t) # {} THEN {}
             ELSE {SubSeq(k, Len(prefix) + 1, Len(k) - Len(suffix)) :
                       k \in {x \in DOMAIN R.messages_by_key :
                                  StartsWith(x, prefix) /\ EndsWith(x, suffix)}}]

\* len(keys_to_delete), the value delete_all_tenant_data returns.
delete_all_tenant_data_ret(R, tenant_id) ==
    Cardinality({k \in DOMAIN R.messages_by_key :
                     StartsWith(k, <<"ivpsql", ":">> \o tenant_id \o <<":">>)})

\* --------------------------------------------- ModelRegistry, ModelLoader
Row(tenant, purpose, provider, api_key) ==
    [TenantId |-> tenant, Purpose |-> purpose, Provider |-> provider,
     ModelName |-> "m", ApiKey |-> api_key]

\* One tenant whose rows all load, one whose rows all fail: the first has no
\* API key (the provider stays disabled), the second names no known provider
\* (the factory raises ValueError).
ConfigA ==
    << Row(T1, "technical", "Gemini", "k"),
       Row(T1, "narrative-summary", "OpenAI", "k"),
       Row(T2, "technical", "Gemini", ""),
       Row(T2, "narrative-summary", "Mistral", "k") >>

factory_providers == {"Gemini", "OpenAI", "Anthropic"}

\* ModelProviderFactory.create raises for a provider it does not know.
create_raises(row) == row.Provider \notin factory_providers

\* BaseModelProvider.__init__ and _initialize: the handle built for a row by
\* the n-th load; it is enabled only if the row carries an API key.
provider_instance(row, n, i) ==
    [obj |-> <<n, i>>, provider |-> row.Provider, model_name |-> row.ModelName,
     enabled |-> row.ApiKey # ""]

is_available(handle) == handle.enabled

register_model(M, tenant_id, purpose, provider) == Put(M, <<tenant_id, purpose>>, provider)

get_model(M, tenant_id, purpose) ==
    IF <<tenant_id, purpose>> \in DOMAIN M THEN {M[<<tenant_id, purpose>>]} ELSE {}

get_all_for_tenant(M, tenant_id) ==
    LET ps == {k[2] : k \in {x \in DOMAIN M : x[1] = tenant_id}} IN
    [p \in ps |-> M[<<tenant_id, p>>]]

clear_tenant(M, tenant_id) == PopAll(M, {k \in DOMAIN M : k[1] = tenant_id})

unload_tenant_models(M, tenant_id) ==
    IF DOMAIN get_all_for_tenant(M, tenant_id) = {} THEN M ELSE clear_tenant(M, tenant_id)

get_all_tenants(M) == {k[1] : k \in DOMAIN M}

\* load_tenant_models: the indexes of the tenant's rows, in file order.
RECURSIVE RowsOf(_, _, _)
RowsOf(cfg, tenant_id, i) ==
    IF i > Len(cfg) THEN <<>>
    ELSE (IF cfg[i].TenantId = tenant_id THEN <<i>> ELSE <<>>)
             \o RowsOf(cfg, tenant_id, i + 1)

\* Mutant: the loader registers the handle without asking is_available().
load_row_unchecked(M, cfg, tenant_id, i, n) ==
    IF create_raises(cfg[i]) THEN M
    ELSE register_model(M, tenant_id, cfg[i].Purpose, provider_instance(cfg[i], n, i))

\* One iteration of the loader's loop (lines 29-71): build the handle and
\* register it if it is available; any exception is caught and the row skipped.
load_row(M, cfg, tenant_id, i, n) ==
    LET row == cfg[i] IN
    IF create_raises(row) THEN M
    ELSE IF is_available(provider_instance(row, n, i))
         THEN register_model(M, tenant_id, row.Purpose, provider_instance(row, n, i))
         ELSE M

\* Mutant: a row that fails to load ends the loader's loop.
rows_after_abort(cfg, rows) ==
    IF create_raises(cfg[Head(rows)]) THEN <<>> ELSE Tail(rows)

\* The rows left once the loop has dealt with the first of them: the except
\* clause (lines 68-71) is inside the loop, so the loop goes on to the next row.
rows_after(cfg, rows) == Tail(rows)

\* Mutant: the provisioner never finds a cached service.
service_never_cached(TS, tenant_id) == FALSE

\* get_or_create_service, the hit test: tenant_id in self._tenant_services.
service_cached(TS, tenant_id) == tenant_id \in DOMAIN TS

cleanup_tenant_service(TS, tenant_id) ==
    IF tenant_id \in DOMAIN TS THEN Pop(TS, tenant_id) ELSE TS

\* ----------------------------------------------------------------- initial
UserInput == [role |-> "user", content |-> {"q"}, metadata |-> {}]

SystemInput ==
    [role |-> "system", content |-> {"rows"}, metadata |-> {[source |-> "db"]}]

NoInput == [role |-> "", content |-> {}, metadata |-> {}]

ThreadIdle ==
    [pc |-> "idle", tenant |-> <<>>, session |-> <<>>, inp |-> NoInput,
     index |-> 0, rows |-> <<>>, gen |-> 0, lookup |-> "", ret |-> <<>>]

DaemonStart ==
    [pc |-> "sleep", wake_at |-> StartTime + BootstrapDelay, current_time |-> 0,
     tenants |-> {}, tenant |-> <<>>, sessions |-> {}, session |-> <<>>,
     last |-> NoTime, deleted_keys |-> 0, used |-> 0]

RedisEmpty ==
    [messages_by_key |-> EmptyMap, key_expires_at |-> EmptyMap,
     active_sessions_by_tenant |-> EmptyMap, session_activity |-> EmptyMap,
     tenant_activity |-> EmptyMap]

\* tenants: the TenantId headers; sessions: the ids generate_session_id hands
\* out, in this order; headers: the SessionId headers a client makes up; the
\* three timeouts are the module globals of main.py
\* (lines 355-357), here as shipped.
Shipped ==
    [threads |-> {"w1"}, tenants |-> PlainTenants, sessions |-> <<S1, S2>>,
     inputs |-> {UserInput}, max_time |-> MaxTime, model_config |-> ConfigA,
     endpoints |-> {"search"}, headers |-> {},
     SESSION_IDLE_TIMEOUT |-> ShippedSessionIdle,
     TENANT_IDLE_TIMEOUT |-> ShippedTenantIdle,
     CLEANUP_CHECK_INTERVAL |-> ShippedCheckInterval]

\* What a sweep found when it began; empty while the daemon sleeps.
NoSweep == [redis |-> RedisEmpty, models |-> EmptyMap, tenant_services |-> EmptyMap]

\* Nothing has been called yet.  deleted: the last delete_session call of
\* /api/session/end and what it returned; raised: the last sweep ended in the
\* except clause; mid: the threads whose get_or_create_service call fell
\* inside the eviction cascade of their tenant; hooks: the cleanup methods the
\* last unload_tenant_models called; error: the last call of a store method
\* that ended in ValueError.
HistEmpty ==
    [calls |-> EmptyMap, served |-> EmptyMap, sweep |-> NoSweep, deleted |-> {},
     raised |-> FALSE, mid |-> {}, hooks |-> {}, error |-> {}]

InitState ==
    /\ now = StartTime
    /\ lock = NoThread
    /\ redis = RedisEmpty
    /\ models = EmptyMap
    /\ tenant_services = EmptyMap
    /\ provisionings = 0
    /\ generated = 0
    /\ th = [t \in Threads |-> ThreadIdle]
    /\ d = DaemonStart
    /\ hist = HistEmpty

Init ==
    /\ InitState
    /\ env = Shipped

\* ------------------------------------------------------- history variable
\* hist.calls[<<T, S>>] lists the store_message calls made on (T, S) since its log
\* was last removed (by delete_session, a tenant purge or an expiry).
CallsReset(C, pairs) == PopAll(C, pairs)

LogRemoved(R, R1, TenantId, SessionId) ==
    LET key == get_messages_key(TenantId, SessionId) IN
    key \in DOMAIN R.messages_by_key /\ key \notin DOMAIN R1.messages_by_key

CallsAfter(C, R, R1) ==
    PopAll(C, {k \in DOMAIN C : LogRemoved(R, R1, k[1], k[2])})

\* ------------------------------------------------ requests (worker threads)
\* Mutant: the store methods run without the lock.
LockIgnored == TRUE

\* with self._lock: the RLock is free, or (re-entrantly) held by the caller.
LockFree == lock = NoThread

LogOf(R, TenantId, SessionId) ==
    Get(R.messages_by_key, get_messages_key(TenantId, SessionId), <<>>)

\* The thread pool hands a request to any idle thread; the threads are
\* interchangeable, so the first idle one takes it.
FirstIdle(t) == t = "w1" \/ th["w1"].pc # "idle"

SessionHeaders ==
    {<<>>} \cup {env.sessions[i] : i \in 1..Len(env.sessions)} \cup env.headers

\* redis_client.exists(key): _exists_key after _expire_if_needed.
exists_key(R, key, t) == key \in DOMAIN expire_if_needed(R, key, t).messages_by_key

\* tenant_middleware (main.py lines 527-573) on the event loop, so not inside
\* a sweep; then /api/search on a worker thread, session validation
\* (search_router.py lines 53-74): a SessionId that exists in memory is kept,
\* otherwise bootstrap_session generates a new one.
Request(t, T, hdr) ==
    /\ t \in env.threads
    /\ T \in env.tenants
    /\ hdr \in SessionHeaders
    /\ th[t].pc = "idle"
    /\ FirstIdle(t)
    /\ d.pc = "sleep"
    /\ LockFree
    /\ LET key == get_messages_key(T, hdr)
           sent == hdr # <<>>
           R1 == update_tenant_activity(redis, T, now)
       IN  /\ redis' = IF sent THEN expire_if_needed(R1, key, now) ELSE R1
           /\ hist' = [hist EXCEPT !.calls = CallsAfter(@, redis, redis')]
           /\ IF sent /\ exists_key(R1, key, now)
              THEN /\ th' = [th EXCEPT ![t] = [ThreadIdle EXCEPT !.pc = "goc",
                                     !.tenant = T, !.session = hdr]]
                   /\ UNCHANGED generated
              ELSE /\ generated < Len(env.sessions)
                   /\ generated' = generated + 1
                   /\ th' = [th EXCEPT ![t] = [ThreadIdle EXCEPT !.pc = "goc",
                                     !.tenant = T,
                                     !.session = env.sessions[generated + 1]]]
    /\ UNCHANGED <<now, env, lock, provVars, d>>

Finish(t) ==
    /\ th[t].pc = "body"
    /\ th' = [th EXCEPT ![t] = ThreadIdle]
    /\ UNCHANGED <<now, env, lock, redis, provVars, generated, d, hist>>

\* store_message up to the computation of the index, holding the lock.
StoreBegin(t, inp) ==
    /\ th[t].pc = "body"
    /\ inp \in env.inputs
    /\ LockFree
    /\ validate_tenant_session(th[t].tenant, th[t].session)
    /\ Len(LogOf(redis, th[t].tenant, th[t].session)) < MaxMsgs
    /\ redis' = store_message_begin(redis, th[t].tenant, th[t].session, now)
    /\ lock' = t
    /\ th' = [th EXCEPT ![t].pc = "store", ![t].inp = inp,
                        ![t].index = Len(LogOf(redis', th[t].tenant, th[t].session))]
    /\ hist' = [hist EXCEPT !.calls = CallsAfter(@, redis, redis')]
    /\ UNCHANGED <<now, env, provVars, generated, d>>

\* store_message from the append to the return, releasing the lock.
StoreEnd(t) ==
    /\ th[t].pc = "store"
    /\ redis' = store_message_end(redis, th[t].tenant, th[t].session,
                                  th[t].index, th[t].inp, now)
    /\ lock' = NoThread
    /\ th' = [th EXCEPT ![t].pc = "body", ![t].inp = NoInput, ![t].index = 0]
    /\ hist' = [hist EXCEPT !.calls =
                    Put(@, <<th[t].tenant, th[t].session>>,
                        Append(Get(@, <<th[t].tenant, th[t].session>>, <<>>),
                               [inp |-> th[t].inp, ret |-> th[t].index]))]
    /\ UNCHANGED <<now, env, provVars, generated, d>>

\* The daemon is inside the cascade of main.py lines 427-437 for the tenant:
\* delete_all_tenant_data has run, cleanup_tenant_service has not.
MidCascade(D, tenant_id) ==
    D.tenant = tenant_id /\ D.pc \in {"unload", "unloading", "cleanup"}

\* get_or_create_service, the cache test (startup.py lines 38-47): a hit
\* returns the cached service, a miss starts load_tenant_models.  A request that
\* bootstraps a session calls it from bootstrap_session and again from
\* SearchService; the second of the two finds what the first cached and is
\* not a step of its own.
GocCheck(t) ==
    /\ th[t].pc = "goc"
    /\ IF service_cached(tenant_services, th[t].tenant)
       THEN /\ th' = [th EXCEPT ![t].pc = "body"]
            /\ UNCHANGED provisionings
       ELSE /\ provisionings < MaxLoads
            /\ provisionings' = provisionings + 1
            /\ th' = [th EXCEPT ![t].pc = "load", ![t].gen = provisionings + 1,
                                ![t].rows = RowsOf(env.model_config, th[t].tenant, 1)]
    /\ hist' = [hist EXCEPT !.mid = IF MidCascade(d, th[t].tenant)
                                    THEN @ \cup {t} ELSE @ \ {t}]
    /\ UNCHANGED <<now, env, lock, redis, models, tenant_services, generated, d>>

\* load_tenant_models, one row of the loop.
LoadRow(t) ==
    /\ th[t].pc = "load"
    /\ th[t].rows # <<>>
    /\ models' = load_row(models, env.model_config, th[t].tenant, Head(th[t].rows),
                          th[t].gen)
    /\ th' = [th EXCEPT ![t].rows = rows_after(env.model_config, th[t].rows)]
    /\ UNCHANGED <<now, env, lock, redis, tenant_services, provisionings,
                   generated, d, hist>>

\* get_or_create_service after the loader returned (startup.py lines 50-58).
CacheService(t) ==
    /\ th[t].pc = "load"
    /\ th[t].rows = <<>>
    /\ tenant_services' =
           Put(tenant_services, th[t].tenant,
               [tenant_id |-> th[t].tenant, obj |-> th[t].gen])
    /\ th' = [th EXCEPT ![t].pc = "body", ![t].gen = 0]
    /\ hist' = [hist EXCEPT !.served =
                    Put(@, th[t].tenant, get_all_for_tenant(models, th[t].tenant))]
    /\ UNCHANGED <<now, env, lock, redis, models, provisionings, generated, d>>

\* ---------------------------------------------------------- cleanup daemon
\* smart_cleanup_daemon (main.py lines 361-451).
Sleep(D, t) ==
    [D EXCEPT !.pc = "sleep", !.wake_at = t + env.CLEANUP_CHECK_INTERVAL,
              !.tenants = {}, !.tenant = <<>>, !.sessions = {}, !.session = <<>>,
              !.last = NoTime, !.current_time = 0, !.deleted_keys = 0, !.used = 0]

\* The sleep ends: current_time and the tenants with loaded models are read.
SweepStart ==
    /\ d.pc = "sleep"
    /\ now >= d.wake_at
    /\ IF get_all_tenants(models) = {}
       THEN /\ d' = Sleep(d, now)
            /\ UNCHANGED hist
       ELSE /\ d' = [d EXCEPT !.pc = "tenants", !.current_time = now,
                              !.tenants = get_all_tenants(models)]
            /\ hist' = [hist EXCEPT !.sweep =
                            [redis |-> redis, models |-> models,
                             tenant_services |-> tenant_services]]
    /\ UNCHANGED <<now, env, lock, redis, provVars, generated, th>>

\* for tenant_id in tenants_with_models: the next tenant and its session keys;
\* after the last tenant the daemon sleeps for the check interval.
NextTenant ==
    /\ d.pc = "tenants"
    /\ LockFree
    /\ IF d.tenants = {}
       THEN /\ d' = Sleep(d, now)
            /\ hist' = [hist EXCEPT !.sweep = NoSweep, !.raised = FALSE]
       ELSE /\ \E T \in d.tenants :
                   d' = [d EXCEPT !.pc = "sessions", !.tenant = T,
                                  !.tenants = d.tenants \ {T},
                                  !.sessions = get_session_keys(redis, T)]
            /\ UNCHANGED hist
    /\ UNCHANGED <<now, env, lock, redis, provVars, generated, th>>

\* for session_id in sessions: read the session's last activity.
ReadSessionActivity ==
    /\ d.pc = "sessions"
    /\ d.sessions # {}
    /\ LockFree
    /\ \E S \in d.sessions :
           d' = [d EXCEPT !.pc = "session_check", !.session = S,
                          !.sessions = d.sessions \ {S},
                          !.last = get_session_last_activity(redis, d.tenant, S)]
    /\ UNCHANGED <<now, env, lock, redis, provVars, generated, th, hist>>

SessionIdle(D) ==
    ~Falsy(D.last) /\ D.current_time - D.last > env.SESSION_IDLE_TIMEOUT

\* The comparison against SESSION_IDLE_TIMEOUT and delete_session.
CheckSession ==
    /\ d.pc = "session_check"
    /\ LockFree
    /\ redis' = IF SessionIdle(d) THEN delete_session(redis, d.tenant, d.session)
                ELSE redis
    /\ hist' = IF SessionIdle(d)
               THEN [hist EXCEPT !.calls = CallsReset(@, {<<d.tenant, d.session>>})]
               ELSE hist
    /\ d' = [d EXCEPT !.pc = "sessions", !.session = <<>>, !.last = NoTime]
    /\ UNCHANGED <<now, env, lock, provVars, generated, th>>

\* Mutant: the tenant phase compares against the session threshold.
TenantIdleBySessionTimeout(R, D) ==
    /\ ~Falsy(get_tenant_last_activity(R, D.tenant))
    /\ D.current_time - get_tenant_last_activity(R, D.tenant) > env.SESSION_IDLE_TIMEOUT

TenantIdle(R, D) ==
    /\ ~Falsy(get_tenant_last_activity(R, D.tenant))
    /\ D.current_time - get_tenant_last_activity(R, D.tenant) > env.TENANT_IDLE_TIMEOUT

\* The tenant's last activity is read and compared against TENANT_IDLE_TIMEOUT.
CheckTenant ==
    /\ d.pc = "sessions"
    /\ d.sessions = {}
    /\ LockFree
    /\ d' = [d EXCEPT !.pc = IF TenantIdle(redis, d) THEN "purge" ELSE "tenants"]
    /\ UNCHANGED <<now, env, lock, redis, provVars, generated, th, hist>>

\* The cascade: delete_all_tenant_data, unload_tenant_models,
\* cleanup_tenant_service.
PurgeData ==
    /\ d.pc = "purge"
    /\ LockFree
    /\ redis' = delete_all_tenant_data(redis, d.tenant)
    /\ hist' = [hist EXCEPT !.calls = CallsAfter(@, redis, redis'),
                            !.served = Pop(@, d.tenant)]
    /\ d' = [d EXCEPT !.pc = "unload",
                      !.deleted_keys = delete_all_tenant_data_ret(redis, d.tenant)]
    /\ UNCHANGED <<now, env, lock, provVars, generated, th>>

UnloadModels ==
    /\ d.pc = "unload"
    /\ models' = unload_tenant_models(models, d.tenant)
    /\ d' = [d EXCEPT !.pc = "cleanup"]
    /\ UNCHANGED <<now, env, lock, redis, tenant_services, provisionings, generated, th, hist>>

CleanupService ==
    /\ d.pc = "cleanup"
    /\ tenant_services' = cleanup_tenant_service(tenant_services, d.tenant)
    /\ d' = [d EXCEPT !.pc = "tenants"]
    /\ UNCHANGED <<now, env, lock, redis, models, provisionings, generated, th, hist>>

\* -------------------------------------------------------------------- time
Advance ==
    /\ now < env.max_time
    /\ d.pc = "sleep"
    /\ now < d.wake_at
    /\ \A t \in Threads : th[t].pc = "idle"
    /\ now' = now + Tick
    /\ hist' = [hist EXCEPT !.deleted = {}, !.error = {}]
    /\ UNCHANGED <<env, lock, redis, provVars, generated, th, d>>

\* ----------------------------------------------------------- specification
Daemon ==
    \/ SweepStart
    \/ NextTenant
    \/ ReadSessionActivity
    \/ CheckSession
    \/ CheckTenant
    \/ PurgeData
    \/ UnloadModels
    \/ CleanupService

Worker(t) ==
    \/ \E T \in PlainTenants, hdr \in {<<>>, S1, S2} : Request(t, T, hdr)
    \/ \E inp \in {UserInput, SystemInput} : StoreBegin(t, inp)
    \/ StoreEnd(t)
    \/ GocCheck(t)
    \/ LoadRow(t)
    \/ CacheService(t)
    \/ Finish(t)

Next ==
    \/ Advance
    \/ Daemon
    \/ \E t \in Threads : Worker(t)

Spec == Init /\ [][Next]_vars

\* The thresholds of main.py are module globals.  Tiered sets them as the
\* deployment the daemon was written for does: sessions go idle long before
\* their tenant, and the daemon looks often.  Inverted lets a tenant go idle
\* before its sessions do.
Tiered ==
    [Shipped EXCEPT !.SESSION_IDLE_TIMEOUT = 3600, !.CLEANUP_CHECK_INTERVAL = 600]

Inverted == [Shipped EXCEPT !.SESSION_IDLE_TIMEOUT = 2 * ShippedSessionIdle]

InitTuned ==
    /\ InitState
    /\ env \in {Shipped, Tiered, Inverted}

SpecTuned == InitTuned /\ [][Next]_vars

\* Two request handlers at once, at one instant: no sweep and no expiry.
Concurrent ==
    [Shipped EXCEPT !.threads = Threads, !.inputs = {UserInput, SystemInput},
                    !.max_time = StartTime]

InitRace ==
    /\ InitState
    /\ env = Concurrent

NextRace == \E t \in Threads : Worker(t)

SpecRace == InitRace /\ [][NextRace]_vars

\* ------------------------------------------------- /api/session endpoints
\* load_tenant_models as a whole: the loop over the tenant's rows.
RECURSIVE load_rows(_, _, _, _, _)
load_rows(M, cfg, tenant_id, rows, n) ==
    IF rows = <<>> THEN M
    ELSE load_rows(load_row(M, cfg, tenant_id, Head(rows), n), cfg, tenant_id,
                   rows_after(cfg, rows), n)

\* start_session (session_router.py lines 35-82), after tenant_middleware.
\* An async handler with no await: it runs on the event loop, so not inside a
\* sweep.  It generates a session id, increments the tenant's counter and calls
\* get_or_create_service, whose load is taken here as one step.
StartSession(T) ==
    /\ T \in env.tenants
    /\ "start" \in env.endpoints
    /\ d.pc = "sleep"
    /\ LockFree
    /\ generated < Len(env.sessions)
    /\ generated' = generated + 1
    /\ redis' = incr_active_sessions(update_tenant_activity(redis, T, now), T)
    /\ IF service_cached(tenant_services, T)
       THEN /\ hist' = [hist EXCEPT !.deleted = {}, !.error = {}]
            /\ UNCHANGED provVars
       ELSE /\ provisionings < MaxLoads
            /\ provisionings' = provisionings + 1
            /\ models' = load_rows(models, env.model_config, T,
                                   RowsOf(env.model_config, T, 1), provisionings + 1)
            /\ tenant_services' =
                   Put(tenant_services, T, [tenant_id |-> T, obj |-> provisionings + 1])
            /\ hist' = [hist EXCEPT !.served = Put(@, T, get_all_for_tenant(models', T)),
                                    !.deleted = {}, !.error = {}]
    /\ UNCHANGED <<now, env, lock, th, d>>

\* The call of a store method that raised ValueError; flip tells two equal
\* calls in a row apart.
Raised(method, TenantId, SessionId) ==
    {[method |-> method, tenant |-> TenantId, session |-> SessionId,
      flip |-> ~(\E x \in hist.error : x.flip)]}

\* end_session (session_router.py lines 86-115), after tenant_middleware: the
\* SessionId header goes to delete_session, which raises ValueError for a
\* missing or blank id (answered with status 500).
EndSession(T, hdr) ==
    /\ T \in env.tenants
    /\ hdr \in SessionHeaders
    /\ "end" \in env.endpoints
    /\ d.pc = "sleep"
    /\ LockFree
    /\ LET R1 == update_tenant_activity(redis, T, now) IN
       IF validate_tenant_session(T, hdr)
       THEN /\ redis' = delete_session(R1, T, hdr)
            /\ hist' = [hist EXCEPT !.calls = CallsReset(@, {<<T, hdr>>}),
                                    !.deleted = {[tenant |-> T, session |-> hdr,
                                        ret |-> delete_session_ret(R1, T, hdr),
                                        flip |-> ~(\E x \in hist.deleted : x.flip)]},
                                    !.error = {}]
       ELSE /\ redis' = R1
            /\ hist' = [hist EXCEPT !.deleted = {},
                                    !.error = Raised("delete_session", T, hdr)]
    /\ UNCHANGED <<now, env, lock, provVars, generated, th, d>>

Session ==
    \/ \E T \in PlainTenants : StartSession(T)
    \/ \E T \in PlainTenants, hdr \in {<<>>, S1, S2} : EndSession(T, hdr)

\* The search endpoint together with the session endpoints, one tenant.
WithSessions ==
    [Shipped EXCEPT !.endpoints = {"search", "start", "end"}, !.tenants = {T1}]

InitSession ==
    /\ InitState
    /\ env = WithSessions

NextSession == Next \/ Session

SpecSession == InitSession /\ [][NextSession]_vars

\* ------------------------------------- the registry dict under two threads
\* A configuration in which both tenants load handles; the second tenant has a
\* row in the middle that the factory refuses (unknown provider).
ConfigB ==
    << Row(T1, "technical", "Gemini", "k"),
       Row(T1, "narrative-summary", "OpenAI", "k"),
       Row(T2, "technical", "Gemini", "k"),
       Row(T2, "narrative-summary", "Mistral", "k"),
       Row(T2, "chart", "Anthropic", "k") >>

\* len(self._models), which a dict iterator records when it is created and
\* compares at every step, the last one included.
dict_used(M) == Cardinality(DOMAIN M)

\* Mutant: an exception in the sweep ends the daemon task.
on_exception_ends_task(D, t) == [D EXCEPT !.pc = "dead"]

\* except Exception (main.py lines 448-449) inside `while True`: the error is
\* logged and the daemon goes to the sleep of line 451.
on_exception(D, t) == Sleep(D, t)

\* unload_tenant_models, entered: get_all_for_tenant creates the iterator of
\* self._models.items() (registry.py lines 40-44).  ModelRegistry takes no lock
\* here, and register_model (line 28) runs on the worker thread of a request
\* that is loading a tenant.
UnloadBegin ==
    /\ d.pc = "unload"
    /\ d' = [d EXCEPT !.pc = "unloading", !.used = dict_used(models)]
    /\ UNCHANGED <<now, env, lock, redis, provVars, generated, th, hist>>

\* The iteration ends.  If the dict changed size since the iterator was
\* created it raises RuntimeError: nothing in unload_tenant_models or in the
\* tenant loop catches it, the except clause at main.py line 448 does, and the
\* daemon goes to its sleep at line 451.  Otherwise the tenant's entries are
\* removed (the rest of unload_tenant_models runs without another thread
\* coming in between).
UnloadEnd ==
    /\ d.pc = "unloading"
    /\ IF dict_used(models) # d.used
       THEN /\ d' = on_exception(d, now)
            /\ hist' = [hist EXCEPT !.sweep = NoSweep, !.raised = TRUE]
            /\ UNCHANGED models
       ELSE /\ models' = unload_tenant_models(models, d.tenant)
            /\ d' = [d EXCEPT !.pc = "cleanup", !.used = 0]
            /\ UNCHANGED hist
    /\ UNCHANGED <<now, env, lock, redis, tenant_services, provisionings, generated, th>>

Unload == UnloadBegin \/ UnloadEnd

\* Both tenants load, and the daemon looks often enough for a second sweep to
\* fit in the time explored.
BothLoad == [Tiered EXCEPT !.model_config = ConfigB]

InitFaulty ==
    /\ InitState
    /\ env = BothLoad

NextFaulty == Next \/ Unload

SpecFaulty == InitFaulty /\ [][NextFaulty]_vars

\* The same program under fairness.  The daemon is a task of the event loop:
\* once its sleep is over, or the RedisService lock it waits for is released
\* (handlers hold it only inside one method call), it runs.  The wall clock is
\* not the program's: it advances however many requests arrive.  A handler on
\* a worker thread runs to its end.
FairSweeps ==
    /\ SF_vars(Daemon \/ Unload)
    /\ SF_vars(Advance)
    /\ \A t \in Threads : WF_vars(StoreEnd(t) \/ GocCheck(t) \/ LoadRow(t)
                                       \/ CacheService(t) \/ Finish(t))

SpecFaultyFair == SpecFaulty /\ FairSweeps

\* ------------------------------------------------ handlers that take long
\* ModelService.get_model (model_service.py lines 15-27): the handle, or the
\* exception it raises.
ModelService_get_model(M, tenant_id, purpose) ==
    IF get_model(M, tenant_id, purpose) = {} THEN "ValueError"
    ELSE IF \E h \in get_model(M, tenant_id, purpose) : ~is_available(h)
         THEN "RuntimeError"
         ELSE "ok"

\* The handler asks its ModelService for the model of the purpose the SQL
\* generator uses (ModelService.generate, model_service.py lines 29-32).
Lookup(t) ==
    /\ t \in env.threads
    /\ th[t].pc = "body"
    /\ th[t].lookup = ""
    /\ th' = [th EXCEPT ![t].lookup =
                  ModelService_get_model(models, th[t].tenant, "technical")]
    /\ UNCHANGED <<now, env, lock, redis, provVars, generated, d, hist>>

\* Time passes while a handler is in flight: it waits for a pool thread, for
\* the database or for a provider.  Nothing in the code bounds that wait.
Elapse ==
    /\ "slow" \in env.endpoints
    /\ now < env.max_time
    /\ d.pc = "sleep"
    /\ now < d.wake_at
    /\ LockFree
    /\ \E t \in Threads : th[t].pc = "goc"
    /\ now' = now + Tick
    /\ UNCHANGED <<env, lock, redis, provVars, generated, th, d, hist>>

\* One tenant, shipped thresholds, a handler that may wait.
SlowHandlers == [Shipped EXCEPT !.tenants = {T1}, !.endpoints = {"search", "slow"}]

InitSlow ==
    /\ InitState
    /\ env = SlowHandlers

NextSlow == Next \/ Elapse \/ \E t \in Threads : Lookup(t)

SpecSlow == InitSlow /\ [][NextSlow]_vars

\* ------------------------------------------- reading a session's log back
\* Mutant: the read ignores the index and returns the first message.
get_message_by_index_first(R, TenantId, SessionId, index, t) ==
    LET messages == get_all_messages(R, TenantId, SessionId, t) IN
    IF messages # <<>> THEN {messages[1]} ELSE {}

\* get_message_by_index (redis_service.py lines 112-119): the message, or
\* None ({}) when the index is out of range or the log is gone.
get_message_by_index(R, TenantId, SessionId, index, t) ==
    LET messages == get_all_messages(R, TenantId, SessionId, t) IN
    IF 0 <= index /\ index < Len(messages) THEN {messages[index + 1]} ELSE {}

\* json.loads on the texts that occur as message content: [1] and [2] are
\* arrays with one element, [] is the empty array, {} an object and 7 a
\* number; any other text raises JSONDecodeError.
json_loads(s) ==
    CASE s = "[1]" -> [raises |-> FALSE, is_list |-> TRUE, value |-> <<1>>]
      [] s = "[2]" -> [raises |-> FALSE, is_list |-> TRUE, value |-> <<2>>]
      [] s = "[]" -> [raises |-> FALSE, is_list |-> TRUE, value |-> <<>>]
      [] s = "{}" -> [raises |-> FALSE, is_list |-> FALSE, value |-> <<>>]
      [] s = "7" -> [raises |-> FALSE, is_list |-> FALSE, value |-> <<7>>]
      [] OTHER -> [raises |-> TRUE, is_list |-> FALSE, value |-> <<>>]

\* Mutant: the scan for the dataset takes the first system message it meets.
RECURSIVE last_system_data_unchecked(_, _)
last_system_data_unchecked(all_messages, i) ==
    IF i = 0 THEN {}
    ELSE IF all_messages[i].role # "system"
         THEN last_system_data_unchecked(all_messages, i - 1)
         ELSE {json_loads(all_messages[i].content).value}

\* for msg in reversed(all_messages) (lines 133-143), from position i down:
\* the first system message whose content parses to a non-empty list.
RECURSIVE last_system_data(_, _)
last_system_data(all_messages, i) ==
    IF i = 0 THEN {}
    ELSE IF all_messages[i].role # "system"
         THEN last_system_data(all_messages, i - 1)
         ELSE LET data_arr == json_loads(all_messages[i].content) IN
              IF ~data_arr.raises /\ data_arr.is_list /\ Len(data_arr.value) > 0
              THEN {data_arr.value}
              ELSE last_system_data(all_messages, i - 1)

\* Mutant: the window keeps the last three messages of a role.
last_three(s) == IF Len(s) <= 3 THEN s ELSE SubSeq(s, Len(s) - 2, Len(s))

\* The slice [-2:].
last_two(s) == IF Len(s) <= 2 THEN s ELSE SubSeq(s, Len(s) - 1, Len(s))

with_role(all_messages, role) == SelectSeq(all_messages, LAMBDA m : m.role = role)

RECURSIVE role_and_content(_)
role_and_content(s) ==
    IF s = <<>> THEN <<>>
    ELSE <<[role |-> Head(s).role, content |-> Head(s).content]>>
             \o role_and_content(Tail(s))

\* Lines 148-175: the index fields of the last two user and the last two
\* assistant messages, then the messages carrying one of them, in log order.
conversation(all_messages) ==
    LET user_messages == last_two(with_role(all_messages, "user"))
        ai_messages == last_two(with_role(all_messages, "assistant"))
        picked == user_messages \o ai_messages
        selected_indexes == {picked[i].index : i \in 1..Len(picked)}
    IN  role_and_content(
            SelectSeq(all_messages,
                      LAMBDA m : m.role \in {"user", "assistant"}
                                     /\ m.index \in selected_indexes))

\* get_context_for_ai (lines 128-175): (None, []) unless a dataset is found.
get_context_for_ai(R, TenantId, SessionId, t) ==
    LET all_messages == get_all_messages(R, TenantId, SessionId, t)
        data == last_system_data(all_messages, Len(all_messages))
    IN  IF all_messages = <<>> \/ data = {}
        THEN [data |-> {}, conversation |-> <<>>]
        ELSE [data |-> data, conversation |-> conversation(all_messages)]

\* The handler reads the context of its session (serach_service.py line 224).
ReadContext(t) ==
    /\ t \in env.threads
    /\ th[t].pc = "body"
    /\ th[t].ret = <<>>
    /\ LockFree
    /\ validate_tenant_session(th[t].tenant, th[t].session)
    /\ redis' = expire_if_needed(redis, get_messages_key(th[t].tenant, th[t].session), now)
    /\ th' = [th EXCEPT ![t].ret =
                  <<"context", get_context_for_ai(redis, th[t].tenant, th[t].session, now)>>]
    /\ hist' = [hist EXCEPT !.calls = CallsAfter(@, redis, redis')]
    /\ UNCHANGED <<now, env, lock, provVars, generated, d>>

\* store_message returns and the handler at once reads the message at the
\* index it was given.
ReadBack(t) ==
    /\ t \in env.threads
    /\ th[t].pc = "store"
    /\ redis' = store_message_end(redis, th[t].tenant, th[t].session,
                                  th[t].index, th[t].inp, now)
    /\ lock' = NoThread
    /\ th' = [th EXCEPT ![t].pc = "body",
                        ![t].ret = <<"message",
                                     get_message_by_index(redis', th[t].tenant,
                                         th[t].session, th[t].index, now)>>]
    /\ hist' = [hist EXCEPT !.calls =
                    Put(@, <<th[t].tenant, th[t].session>>,
                        Append(Get(@, <<th[t].tenant, th[t].session>>, <<>>),
                               [inp |-> th[t].inp, ret |-> th[t].index]))]
    /\ UNCHANGED <<now, env, provVars, generated, d>>

AssistantInput == [role |-> "assistant", content |-> {}, metadata |-> {[intent |-> "summary"]}]

\* What the stored messages were made from: user text (one of them looking
\* like a dataset), an assistant reply, and system messages with each kind of
\* content.
LogInputs ==
    {[role |-> "user", content |-> {c}, metadata |-> {}] : c \in {"q", "[1]"}}
    \cup {[role |-> "assistant", content |-> {"a"}, metadata |-> {}]}
    \cup {[role |-> "system", content |-> {c}, metadata |-> {}] :
              c \in {"[1]", "[2]", "[]", "{}", "7", "rows"}}

\* The log store_message builds from the inputs, all stored at time t.
LogFrom(inps, t) == [i \in 1..Len(inps) |-> Message(i - 1, inps[i], t)]

\* RedisService after those store_message calls on (TenantId, SessionId).
RedisWith(TenantId, SessionId, inps, t) ==
    IF inps = <<>> THEN [RedisEmpty EXCEPT !.tenant_activity = Put(@, TenantId, t)]
    ELSE [messages_by_key |-> Put(EmptyMap, get_messages_key(TenantId, SessionId), LogFrom(inps, t)),
          key_expires_at |-> Put(EmptyMap, get_messages_key(TenantId, SessionId), t + memory_ttl),
          active_sessions_by_tenant |-> Put(EmptyMap, TenantId, 1),
          session_activity |-> Put(EmptyMap, <<TenantId, SessionId>>, t),
          tenant_activity |-> Put(EmptyMap, TenantId, t)]

Reading ==
    [Shipped EXCEPT !.tenants = {T1}, !.sessions = <<S1>>,
                    !.inputs = {UserInput, SystemInput, AssistantInput}]

\* A handler of tenant T1 is in session S1, whose log was stored at StartTime
\* by an earlier request; it is now StartTime, or late enough for the log to
\* have expired.
InitContext ==
    /\ env = Reading
    /\ now \in {StartTime, StartTime + MaxTicks * Tick}
    /\ lock = NoThread
    /\ \E n \in 0..MaxLog : \E inps \in [1..n -> LogInputs] :
           /\ redis = RedisWith(T1, S1, inps, StartTime)
           /\ hist = [HistEmpty EXCEPT !.calls =
                          IF n = 0 THEN EmptyMap
                          ELSE Put(EmptyMap, <<T1, S1>>,
                                   [i \in 1..n |-> [inp |-> inps[i], ret |-> i - 1]])]
    /\ models = load_rows(EmptyMap, env.model_config, T1, RowsOf(env.model_config, T1, 1), 1)
    /\ tenant_services = Put(EmptyMap, T1, [tenant_id |-> T1, obj |-> 1])
    /\ provisionings = 1
    /\ generated = 1
    /\ th = [t \in Threads |->
                IF t = "w1" THEN [ThreadIdle EXCEPT !.pc = "body", !.tenant = T1, !.session = S1]
                ELSE ThreadIdle]
    /\ d = DaemonStart

NextContext ==
    \E t \in Threads :
        \/ ReadContext(t)
        \/ \E inp \in {UserInput, SystemInput, AssistantInput} : StoreBegin(t, inp)
        \/ ReadBack(t)
        \/ Finish(t)

SpecContext == InitContext /\ [][NextContext]_vars

\* ------------------------------------------ handles with a cleanup method
\* The order in which a tenant's purposes were registered (dicts keep
\* insertion order).
PurposeOrder == <<"technical", "narrative-summary", "chart">>

\* tenant_models.items() in unload_tenant_models: the tenant's handles.
tenant_handles(M, tenant_id) ==
    LET ps == SelectSeq(PurposeOrder, LAMBDA p : <<tenant_id, p>> \in DOMAIN M) IN
    [i \in 1..Len(ps) |-> M[<<tenant_id, ps[i]>>]]

\* hasattr(provider, 'unload') / hasattr(provider, 'cleanup'): the method the
\* loop calls on a handle, if it has one; unload is preferred.
hook_called(h) ==
    IF "unload" \in DOMAIN h THEN {[obj |-> h.obj, method |-> "unload", outcome |-> h.unload]}
    ELSE IF "cleanup" \in DOMAIN h
         THEN {[obj |-> h.obj, method |-> "cleanup", outcome |-> h.cleanup]}
         ELSE {}

\* Mutant: an exception of a cleanup method leaves the loop.
RECURSIVE run_hooks_propagating(_, _)
run_hooks_propagating(handles, called) ==
    IF handles = <<>> THEN called
    ELSE IF \E c \in hook_called(Head(handles)) : c.outcome = "raises"
         THEN called \cup hook_called(Head(handles))
         ELSE run_hooks_propagating(Tail(handles), called \cup hook_called(Head(handles)))

\* The loop of registry.py lines 76-84: each handle's method is called inside
\* try/except Exception, so the loop goes on whatever the call does.
RECURSIVE run_hooks(_, _)
run_hooks(handles, called) ==
    IF handles = <<>> THEN called
    ELSE run_hooks(Tail(handles), called \cup hook_called(Head(handles)))

\* unload_tenant_models as the daemon calls it, with the cleanup methods it
\* invoked.
UnloadHooked ==
    /\ d.pc = "unload"
    /\ models' = unload_tenant_models(models, d.tenant)
    /\ hist' = [hist EXCEPT !.hooks = run_hooks(tenant_handles(models, d.tenant), {})]
    /\ d' = [d EXCEPT !.pc = "cleanup"]
    /\ UNCHANGED <<now, env, lock, redis, tenant_services, provisionings, generated, th>>

\* What a provider class may add to a handle: nothing, or an unload and/or a
\* cleanup method that returns or raises.
HookMethods ==
    {EmptyMap, [unload |-> "ok"], [unload |-> "raises"], [cleanup |-> "ok"],
     [cleanup |-> "raises"], [unload |-> "raises", cleanup |-> "ok"]}

\* A registry filled through register_model: tenant T1 holds a handle for
\* each purpose in ps, built by the factory from a row and carrying the
\* methods its provider class defines; tenant T2 holds a plain one.
RegistryWith(ps, methods) ==
    LET mine == [k \in {<<T1, p>> : p \in ps} |->
                    provider_instance(Row(T1, k[2], "Gemini", "k"), 1,
                        CHOOSE i \in 1..Len(PurposeOrder) : PurposeOrder[i] = k[2])
                        @@ methods[k[2]]]
    IN  register_model(mine, T2, "technical",
                       provider_instance(Row(T2, "technical", "Gemini", "k"), 2, 1))

\* The daemon has deleted the data of idle tenant T1 and is about to unload
\* its models.
InitUnload ==
    /\ env = Shipped
    /\ now = MaxTime
    /\ lock = NoThread
    /\ redis = [RedisEmpty EXCEPT !.tenant_activity = Put(@, T2, MaxTime)]
    /\ \E ps \in (SUBSET Purposes) \ {{}} : \E methods \in [ps -> HookMethods] :
           models = RegistryWith(ps, methods)
    /\ tenant_services = Put(Put(EmptyMap, T1, [tenant_id |-> T1, obj |-> 1]),
                             T2, [tenant_id |-> T2, obj |-> 2])
    /\ provisionings = 2
    /\ generated = 0
    /\ th = [t \in Threads |-> ThreadIdle]
    /\ d = [DaemonStart EXCEPT !.pc = "unload", !.current_time = MaxTime,
                               !.tenant = T1, !.tenants = {T2}]
    /\ hist = HistEmpty

NextUnload ==
    \/ UnloadHooked
    \/ CleanupService
    \/ NextTenant
    \/ CheckTenant

SpecUnload == InitUnload /\ [][NextUnload]_vars


\* ------------------------------------------------- ids chosen by the client
\* TenantId and SessionId are request headers: tenant_middleware (main.py
\* lines 527-573) only rejects a missing TenantId, and validate_tenant_session
\* only blank ids, so an id may contain the ':' and the words the keys are
\* built with.  ColonTenant is the string "t1:session:a", ColonSession the
\* string "a:session:s1".
ColonTenant == <<"t1", ":", "session", ":", "a">>
ColonSession == <<"a", ":", "session", ":", "s1">>

MadeUpIds ==
    [Shipped EXCEPT !.tenants = {T1, ColonTenant}, !.headers = {ColonSession}]

InitMadeUp ==
    /\ InitState
    /\ env = MadeUpIds

NextMadeUp ==
    \/ Next
    \/ \E t \in Threads, hdr \in {<<>>, S1, S2, ColonSession} :
           Request(t, ColonTenant, hdr)
    \/ \E t \in Threads : Request(t, T1, ColonSession)

SpecMadeUp == InitMadeUp /\ [][NextMadeUp]_vars


\* ----------------------------------------- slow handlers, frequent sweeps
\* One tenant, a handler that may wait, and the daemon looking at every step
\* of the clock.
SlowTiered == [Tiered EXCEPT !.tenants = {T1}, !.endpoints = {"search", "slow"}]

InitSlowTiered ==
    /\ InitState
    /\ env = SlowTiered

\* The daemon is a task of the event loop and runs when its sleep is over; the
\* wall clock goes on whatever the program does; a handler on a worker thread
\* runs to its end, however long it waited.
FairSlow ==
    /\ SF_vars(Daemon)
    /\ SF_vars(Advance)
    /\ \A t \in Threads : WF_vars(StoreEnd(t) \/ GocCheck(t) \/ LoadRow(t)
                                       \/ CacheService(t) \/ Finish(t))

SpecSlowFair == InitSlowTiered /\ [][NextSlow]_vars /\ FairSlow


\* --------------------------------------------------------------- blank ids
\* A TenantId header of one blank passes tenant_middleware, which only
\* rejects a missing or empty one (main.py lines 546-554); a SessionId header
\* may be missing or blank.
BlankTenant == <<" ">>
BlankSession == <<" ", " ">>

\* store_message called with a blank id: validate_tenant_session raises before
\* the key is built (redis_service.py line 87) and the handler ends.
StoreRaises(t) ==
    /\ t \in env.threads
    /\ th[t].pc = "body"
    /\ ~validate_tenant_session(th[t].tenant, th[t].session)
    /\ th' = [th EXCEPT ![t] = ThreadIdle]
    /\ hist' = [hist EXCEPT !.error =
                    Raised("store_message", th[t].tenant, th[t].session)]
    /\ UNCHANGED <<now, env, lock, redis, provVars, generated, d>>

\* get_all_messages called with a blank id (redis_service.py line 122).
ReadRaises(t) ==
    /\ t \in env.threads
    /\ th[t].pc = "body"
    /\ ~validate_tenant_session(th[t].tenant, th[t].session)
    /\ th' = [th EXCEPT ![t] = ThreadIdle]
    /\ hist' = [hist EXCEPT !.error =
                    Raised("get_all_messages", th[t].tenant, th[t].session)]
    /\ UNCHANGED <<now, env, lock, redis, provVars, generated, d>>

\* The search and session endpoints at one instant, with a blank tenant id
\* and a blank session id among the headers.
BlankIds ==
    [WithSessions EXCEPT !.tenants = {T1, BlankTenant}, !.headers = {BlankSession},
                         !.inputs = {UserInput, SystemInput}, !.max_time = StartTime]

InitBlank ==
    /\ InitState
    /\ env = BlankIds

NextBlank ==
    \/ \E t \in Threads : Worker(t)
    \/ Session
    \/ \E t \in Threads, hdr \in {<<>>, S1, BlankSession} : Request(t, BlankTenant, hdr)
    \/ \E t \in Threads : Request(t, T1, BlankSession)
    \/ \E T \in {T1, BlankTenant}, hdr \in {S1, BlankSession} : EndSession(T, hdr)
    \/ \E t \in Threads : StoreRaises(t)
    \/ \E t \in Threads : ReadRaises(t)
    \/ \E t \in Threads : ReadContext(t)

SpecBlank == InitBlank /\ [][NextBlank]_vars

\* ------------------------------------------------------------------ claims
Pairs == {<<T, env.sessions[i]>> : T \in env.tenants, i \in 1..Len(env.sessions)}

ExpiryDue(R, TenantId, SessionId, t) ==
    LET key == get_messages_key(TenantId, SessionId) IN
    key \in DOMAIN R.key_expires_at /\ t > R.key_expires_at[key]

\* C1: for every (tenant, session) whose log was not removed or left to
\* expire, get_all_messages returns exactly the messages of the store_message
\* calls made on it, in call order, with index fields 0..N-1, and each call
\* returned the index of its message; also when the calls come from two
\* request handlers at once.
C1_LogIsTheCallsInOrder ==
    \A p \in Pairs :
        LET log == get_all_messages(redis, p[1], p[2], now)
            cs == Get(hist.calls, p, <<>>)
        IN  ~ExpiryDue(redis, p[1], p[2], now) =>
                /\ Len(log) = Len(cs)
                /\ \A j \in 1..Len(cs) :
                       /\ log[j].index = j - 1
                       /\ cs[j].ret = j - 1
                       /\ log[j].role = cs[j].inp.role
                       /\ cs[j].inp.content \in {{}, {log[j].content}}
                       /\ cs[j].inp.content = {} => log[j].content = ""
                       /\ cs[j].inp.metadata \in {{}, {log[j].metadata}}
                       /\ cs[j].inp.metadata = {} => log[j].metadata = EmptyMap

\* Two handlers are in the same session, and its log holds one message of each.
C1_Witness ==
    /\ th["w1"].pc = "body" /\ th["w2"].pc = "body"
    /\ th["w1"].tenant = th["w2"].tenant /\ th["w1"].session = th["w2"].session
    /\ LET log == LogOf(redis, th["w1"].tenant, th["w1"].session) IN
       Len(log) = 2 /\ log[1].role # log[2].role

\* The purposes model_config.json lists for a tenant, and those of them whose
\* row names a known provider and carries an API key.
ConfiguredPurposes(cfg, tenant_id) ==
    {cfg[i].Purpose : i \in {j \in 1..Len(cfg) : cfg[j].TenantId = tenant_id}}

UsablePurposes(cfg, tenant_id) ==
    {cfg[i].Purpose : i \in {j \in 1..Len(cfg) :
                                 /\ cfg[j].TenantId = tenant_id
                                 /\ cfg[j].Provider \in factory_providers
                                 /\ cfg[j].ApiKey # ""}}

\* get_or_create_service has returned to the handler running on thread t.
Returned(t) == th[t].pc = "body"

C3_SecondCallIsAHit ==
    [][\A t \in Threads :
           (/\ th[t].pc = "goc"
            /\ th[t].tenant \in DOMAIN hist.served
            /\ th'[t] # th[t])
           => /\ th'[t].pc = "body"
              /\ provisionings' = provisionings
              /\ models' = models
              /\ get_all_for_tenant(models', th[t].tenant) = hist.served[th[t].tenant]
              /\ tenant_services'[th[t].tenant] = tenant_services[th[t].tenant]]_vars

\* The second request of a run has its service, and the one load so far was
\* the first request's, for the same tenant.
C3_Witness ==
    /\ Returned("w1") /\ th["w1"].tenant = T1
    /\ generated = 2 /\ provisionings = 1
    /\ T1 \in DOMAIN hist.served
    /\ DOMAIN hist.served[T1] # {}

\* C4 as stated: a call of get_or_create_service(T) made while the registry
\* holds no handle for T starts a load of T's configuration.
C4_ZeroHandlesProvisions ==
    [][\A t \in Threads :
           (/\ th[t].pc = "goc"
            /\ DOMAIN get_all_for_tenant(models, th[t].tenant) = {}
            /\ th'[t] # th[t])
           => th'[t].pc = "load"]_vars

\* A handler holds a service for a tenant that has no handle in the registry.
C4_Witness ==
    /\ Returned("w1")
    /\ service_cached(tenant_services, th["w1"].tenant)
    /\ DOMAIN get_all_for_tenant(models, th["w1"].tenant) = {}
    /\ provisionings = 1 /\ generated = 2

\* The tenants the running sweep is done with.
Swept ==
    (get_all_tenants(hist.sweep.models) \ d.tenants)
        \ (IF d.pc = "tenants" THEN {} ELSE {d.tenant})

\* The tenant's idle time as the running sweep computes it.
TenantIdleTime(tenant_id) ==
    d.current_time - get_tenant_last_activity(hist.sweep.redis, tenant_id)

HasTenantActivity(tenant_id) ==
    ~Falsy(get_tenant_last_activity(hist.sweep.redis, tenant_id))

\* The sessions of the tenant that were over the session threshold when the
\* running sweep began.
IdleSessionsAtSweep(tenant_id) ==
    {S \in get_session_keys(hist.sweep.redis, tenant_id) :
         /\ ~Falsy(get_session_last_activity(hist.sweep.redis, tenant_id, S))
         /\ d.current_time - get_session_last_activity(hist.sweep.redis, tenant_id, S)
                > env.SESSION_IDLE_TIMEOUT}

NoLog(R, tenant_id, session_id) ==
    /\ get_messages_key(tenant_id, session_id) \notin DOMAIN R.messages_by_key
    /\ get_messages_key(tenant_id, session_id) \notin DOMAIN R.key_expires_at

C6_SessionPhaseOnly ==
    d.pc # "sleep" =>
        \A T \in Swept :
            (/\ HasTenantActivity(T)
             /\ TenantIdleTime(T) > env.SESSION_IDLE_TIMEOUT
             /\ TenantIdleTime(T) <= env.TENANT_IDLE_TIMEOUT)
            => /\ \A S \in IdleSessionsAtSweep(T) :
                      S \notin get_session_keys(redis, T) /\ NoLog(redis, T, S)
               /\ get_all_for_tenant(models, T) = get_all_for_tenant(hist.sweep.models, T)
               /\ service_cached(tenant_services, T)
                      = service_cached(hist.sweep.tenant_services, T)
               /\ Get(tenant_services, T, {}) = Get(hist.sweep.tenant_services, T, {})
               /\ get_tenant_last_activity(redis, T)
                      = get_tenant_last_activity(hist.sweep.redis, T)

\* The session phase has deleted an idle session that had a log, for a tenant
\* that keeps its handles.
C6_Witness ==
    /\ d.pc = "tenants" /\ T1 \in Swept
    /\ HasTenantActivity(T1)
    /\ TenantIdleTime(T1) > env.SESSION_IDLE_TIMEOUT
    /\ TenantIdleTime(T1) <= env.TENANT_IDLE_TIMEOUT
    /\ \E S \in IdleSessionsAtSweep(T1) : ~NoLog(hist.sweep.redis, T1, S)
    /\ DOMAIN get_all_for_tenant(models, T1) # {}

\* store_message returns to the handler on thread t in this step.
StoreReturns(t) == th[t].pc = "store" /\ th'[t].pc = "body"

\* C7 as stated: every store_message on (tenant, session), the first and every
\* later one, leaves the session's activity record at the current time.
C7_EveryStoreSetsActivity ==
    [][\A t \in Threads :
           StoreReturns(t) =>
               get_session_last_activity(redis', th[t].tenant, th[t].session) = now]_vars

\* A log holds two messages stored at different times and the activity record
\* is the time of the first.
C7_Witness ==
    \E p \in Pairs :
        LET log == LogOf(redis, p[1], p[2]) IN
        /\ Len(log) = 2
        /\ log[1].timestamp < log[2].timestamp
        /\ get_session_last_activity(redis, p[1], p[2]) = log[1].timestamp

\* The last store_message on the session is no longer ago than the session
\* threshold and the time-to-live.
RecentlyUsed(R, TenantId, SessionId, t) ==
    LET log == LogOf(R, TenantId, SessionId) IN
    /\ Len(log) > 0
    /\ t - log[Len(log)].timestamp <= env.SESSION_IDLE_TIMEOUT
    /\ t - log[Len(log)].timestamp <= memory_ttl

\* C8 as stated: the log of a session whose last store_message is no longer
\* ago than the session threshold and the time-to-live is removed neither by
\* the daemon's session phase nor by lazy expiry; only the tenant cascade may
\* remove it.
C8_ActiveSessionIsKept ==
    [][\A p \in Pairs :
           (RecentlyUsed(redis, p[1], p[2], now) /\ LogRemoved(redis, redis', p[1], p[2]))
           => d.pc = "purge"]_vars

\* The session phase is about to delete a session that was used recently.
C8_Witness ==
    /\ d.pc = "session_check" /\ SessionIdle(d)
    /\ RecentlyUsed(redis, d.tenant, d.session, now)

\* C9 as stated: a session whose last append is more than the time-to-live ago
\* reads as an empty list and is listed neither by get_tenant_sessions nor by
\* get_session_keys.
C9_ExpiredSessionIsInvisible ==
    \A p \in Pairs :
        LET log == LogOf(redis, p[1], p[2]) IN
        (Len(log) > 0 /\ now - log[Len(log)].timestamp > memory_ttl)
        => /\ get_all_messages(redis, p[1], p[2], now) = <<>>
           /\ p[2] \notin get_tenant_sessions(redis, p[1], now).session_ids
           /\ p[2] \notin get_session_keys(redis, p[1])

\* An expired session reads as empty and get_session_keys still lists it.
C9_Witness ==
    \E p \in Pairs :
        /\ ExpiryDue(redis, p[1], p[2], now)
        /\ get_all_messages(redis, p[1], p[2], now) = <<>>
        /\ get_tenant_sessions(redis, p[1], now).raises
        /\ p[2] \in get_session_keys(redis, p[1])

\* A read removes the expired log of the session in this step.
LazyExpiry(TenantId, SessionId) ==
    /\ ExpiryDue(redis, TenantId, SessionId, now)
    /\ LogRemoved(redis, redis', TenantId, SessionId)
    /\ d' = d

\* C10 as stated: a read that expires a session leaves what delete_session
\* would leave, the state of a session never created: no log, no expiry
\* entry, no activity record, and the tenant's counter not counting it.
C10_LazyExpiryIsDeleteSession ==
    [][\A p \in Pairs :
           LazyExpiry(p[1], p[2])
           => /\ NoLog(redis', p[1], p[2])
              /\ get_session_last_activity(redis', p[1], p[2]) = NoTime
              /\ Get(redis'.active_sessions_by_tenant, p[1], 0)
                     = Get(delete_session(redis, p[1], p[2]).active_sessions_by_tenant,
                           p[1], 0)]_vars

\* A session without a log is still recorded and counted, with no sweep and no
\* store under way.
C10_Witness ==
    \E p \in Pairs :
        /\ NoLog(redis, p[1], p[2])
        /\ get_session_last_activity(redis, p[1], p[2]) # NoTime
        /\ Get(redis.active_sessions_by_tenant, p[1], 0) > 0
        /\ d.pc = "sleep" /\ lock = NoThread

\* Sessions of a tenant that hold a non-empty message log.
SessionsWithLog(R, TenantId) ==
    {i \in 1..Len(env.sessions) : Len(LogOf(R, TenantId, env.sessions[i])) > 0}

\* C11 as stated: whenever no store_message is in progress, the active-session
\* counter of every tenant equals the number of its sessions that have a
\* non-empty message log, after any sequence of session starts, appends, lazy
\* expiries, session deletes and tenant purges.
C11_CounterCountsLogs ==
    lock = NoThread =>
        \A T \in env.tenants :
            Get(redis.active_sessions_by_tenant, T, 0) = Cardinality(SessionsWithLog(redis, T))

\* A session was started through /api/session/start and nothing was stored:
\* the counter already counts it.
C11_Witness ==
    /\ lock = NoThread /\ generated > 0
    /\ SessionsWithLog(redis, T1) = {}
    /\ Get(redis.active_sessions_by_tenant, T1, 0) > 0

\* The sweep ends: the daemon goes from the tenant loop to its sleep.
SweepEnds == d.pc # "sleep" /\ d'.pc = "sleep"

\* C12 as stated: an exception raised while one tenant is processed does not
\* stop the sweep; when the sweep ends, every tenant that had cached handles
\* at its start has been processed in that cycle.
C12_SweepVisitsEveryTenant == [][SweepEnds => d.tenants = {}]_vars

\* unload_tenant_models raised for one tenant while another tenant of the same
\* sweep was still waiting for its turn.
C12_Witness ==
    /\ d.pc = "unloading" /\ dict_used(models) # d.used
    /\ d.tenants # {}

\* C13 as stated: a request whose get_or_create_service call falls between two
\* steps of the eviction cascade of its tenant ends up provisioned; its model
\* lookup succeeds and no error reaches the caller.
C13_MidCascadeRequestIsServed ==
    \A t \in hist.mid : th[t].pc = "body" => th[t].lookup \in {"", "ok"}

\* A handler that called get_or_create_service inside the cascade of its
\* tenant has looked up a model.
C13_Witness ==
    \E t \in hist.mid : th[t].pc = "body" /\ th[t].lookup # ""

\* The handler on thread t has just been handed the result of
\* get_context_for_ai.
ContextRead(t) ==
    th[t].ret = <<>> /\ th'[t].ret # <<>> /\ th'[t].ret[1] = "context"

\* The log a read finds: nothing if the log's expiry is due.
LiveLog(R, TenantId, SessionId, t) ==
    IF ExpiryDue(R, TenantId, SessionId, t) THEN <<>> ELSE LogOf(R, TenantId, SessionId)

\* Content that is a non-empty structured dataset: it parses to an array with
\* at least one element.
IsDataset(content) ==
    /\ ~json_loads(content).raises
    /\ json_loads(content).is_list
    /\ Len(json_loads(content).value) > 0

DatasetPositions(log) ==
    {i \in 1..Len(log) : log[i].role = "system" /\ IsDataset(log[i].content)}

LatestDataset(log) ==
    IF DatasetPositions(log) = {} THEN {}
    ELSE {json_loads(log[CHOOSE i \in DatasetPositions(log) :
                             \A j \in DatasetPositions(log) : j <= i].content).value}

\* C14: the payload get_context_for_ai returns is the parsed content of the
\* system message with the highest index whose content is a non-empty dataset,
\* whatever empty or unparsable system messages follow it; it is absent when
\* the log has no such message, when the session has no log and when the log
\* has expired.
C14_PayloadIsLatestDataset ==
    [][\A t \in Threads : ContextRead(t) =>
           th'[t].ret[2].data =
               LatestDataset(LiveLog(redis, th[t].tenant, th[t].session, now))]_vars

\* The payload was taken from a system message that is followed by a system
\* message without a dataset and preceded by another dataset.
C14_Witness ==
    /\ th["w1"].ret # <<>> /\ th["w1"].ret[1] = "context"
    /\ th["w1"].ret[2].data = {<<1>>}
    /\ LET log == LogOf(redis, T1, S1) IN
       /\ Len(log) = 3
       /\ log[1].role = "system" /\ log[1].content = "[2]"
       /\ log[2].role = "system" /\ log[2].content = "[1]"
       /\ log[3].role = "system" /\ log[3].content \in {"[]", "rows"}

\* The positions of the last two messages of each conversational role.
WindowPositions(log) ==
    {i \in 1..Len(log) :
         /\ log[i].role \in {"user", "assistant"}
         /\ Cardinality({j \in (i + 1)..Len(log) : log[j].role = log[i].role}) < 2}

RECURSIVE Listed(_, _, _)
Listed(log, K, i) ==
    IF i > Len(log) THEN <<>>
    ELSE (IF i \in K THEN <<[role |-> log[i].role, content |-> log[i].content]>>
          ELSE <<>>) \o Listed(log, K, i + 1)

\* C15: when a payload is found, the conversation returned with it is the
\* last two user and the last two assistant messages of the log (all of them
\* if there are fewer), without any system message, in index order.
C15_WindowIsLastTwoOfEachRole ==
    [][\A t \in Threads : (ContextRead(t) /\ th'[t].ret[2].data # {}) =>
           LET log == LiveLog(redis, th[t].tenant, th[t].session, now) IN
           th'[t].ret[2].conversation = Listed(log, WindowPositions(log), 1)]_vars

\* A payload was found in a log with three user messages: the window holds
\* two of them.
C15_Witness ==
    /\ th["w1"].ret # <<>> /\ th["w1"].ret[1] = "context"
    /\ th["w1"].ret[2].data # {}
    /\ Len(with_role(LogOf(redis, T1, S1), "user")) = 3
    /\ Len(th["w1"].ret[2].conversation) = 2

\* The handler on thread t holds the message get_message_by_index returned
\* for the index its store_message call returned.
MessageRead(t) ==
    th[t].pc = "body" /\ th[t].ret # <<>> /\ th[t].ret[1] = "message"

Hooked(M, tenant_id) ==
    {M[k].obj : k \in {x \in DOMAIN M : x[1] = tenant_id
                                        /\ DOMAIN M[x] \cap {"unload", "cleanup"} # {}}}

\* C17: when unload_tenant_models(T) returns, the registry holds no entry of
\* T, and the cleanup method of every handle of T that defines one has been
\* called, also when one of them raised; the exception does not leave
\* unload_tenant_models (the daemon goes on to cleanup_tenant_service).
C17_UnloadRemovesAllAndCallsEveryHook ==
    [][d.pc = "unload" /\ d'.pc # "unload" =>
           /\ d'.pc = "cleanup"
           /\ DOMAIN get_all_for_tenant(models', d.tenant) = {}
           /\ {c.obj : c \in hist'.hooks} = Hooked(models, d.tenant)
           /\ \A k \in DOMAIN models : k[1] # d.tenant =>
                  k \in DOMAIN models' /\ models'[k] = models[k]]_vars

\* The tenant was unloaded; the method of its first handle raised and the
\* methods of the handles after it were called all the same.
C17_Witness ==
    /\ d.pc = "cleanup" /\ d.tenant = T1
    /\ DOMAIN get_all_for_tenant(models, T1) = {}
    /\ Cardinality(hist.hooks) = 3
    /\ \E c \in hist.hooks : c.outcome = "raises" /\ c.method = "unload"
    /\ \E c \in hist.hooks : c.outcome = "raises" /\ c.method = "cleanup"

\* The rows of a tenant that construct an available provider.
LoadableRows(cfg, tenant_id) ==
    {i \in 1..Len(cfg) : /\ cfg[i].TenantId = tenant_id
                         /\ ~create_raises(cfg[i])
                         /\ cfg[i].ApiKey # ""}

\* C18: when get_or_create_service returns from provisioning a tenant, every
\* row of the tenant that can be constructed has been constructed and
\* registered by this load, whatever rows before it failed; the call returns
\* (the service is cached) although a row failed.
C18_FailedRowDoesNotAbortLoad ==
    [][\A t \in Threads : (th[t].pc = "load" /\ th'[t].pc # "load") =>
           /\ th'[t].pc = "body"
           /\ service_cached(tenant_services', th[t].tenant)
           /\ \A i \in LoadableRows(env.model_config, th[t].tenant) :
                  \E h \in get_model(models', th[t].tenant, env.model_config[i].Purpose) :
                      h.obj = <<th[t].gen, i>>]_vars

\* Provisioning returned for the tenant whose second row fails: the row
\* after the failing one is registered, the failing one is not.
C18_Witness ==
    /\ th["w1"].pc = "body" /\ th["w1"].tenant = T2
    /\ service_cached(tenant_services, T2)
    /\ get_model(models, T2, "narrative-summary") = {}
    /\ get_model(models, T2, "chart") # {}
    /\ get_model(models, T2, "technical") # {}

\* The daemon's session phase calls delete_session in this step.
DaemonDeletes == d.pc = "session_check" /\ SessionIdle(d) /\ d'.pc = "sessions"

\* /api/session/end calls delete_session in this step.
EndpointDeletes == hist'.deleted # {} /\ hist'.deleted # hist.deleted

\* What delete_session(TenantId, SessionId) is to leave, R before and R1 after.
AfterDelete(R, R1, TenantId, SessionId) ==
    /\ NoLog(R1, TenantId, SessionId)
    /\ <<TenantId, SessionId>> \notin DOMAIN R1.session_activity
    /\ Get(R1.active_sessions_by_tenant, TenantId, 0) =
           IF Get(R.active_sessions_by_tenant, TenantId, 0) > 0
           THEN Get(R.active_sessions_by_tenant, TenantId, 0) - 1 ELSE 0
    /\ TenantId \in DOMAIN R1.active_sessions_by_tenant =>
           R1.active_sessions_by_tenant[TenantId] > 0

\* C19: delete_session(T, S), called by the daemon or by /api/session/end,
\* leaves (T, S) without message log and without activity record, lowers the
\* tenant's counter by one but not below zero, keeps no counter entry of
\* zero, and returns 1 if a log existed and 0 otherwise.
C19_DeleteSessionLeavesNothing ==
    [][/\ DaemonDeletes => AfterDelete(redis, redis', d.tenant, d.session)
       /\ EndpointDeletes =>
              \A x \in hist'.deleted :
                  /\ AfterDelete(redis, redis', x.tenant, x.session)
                  /\ x.ret = IF get_messages_key(x.tenant, x.session)
                                    \in DOMAIN redis.messages_by_key
                             THEN 1 ELSE 0]_vars

\* /api/session/end removed the log of the tenant's only counted session:
\* it returned 1 and the counter entry is gone.
C19_Witness ==
    /\ \E x \in hist.deleted :
           /\ x.ret = 1 /\ x.tenant = T1
           /\ NoLog(redis, T1, x.session)
           /\ <<T1, x.session>> \notin DOMAIN redis.session_activity
    /\ T1 \notin DOMAIN redis.active_sessions_by_tenant

\* An exception was raised while a tenant was processed, in this step.
SweepRaises == ~hist.raised /\ hist'.raised

\* The daemon sleeps after an exception, and the clock explored reaches the
\* end of that sleep.
SleepsAfterException ==
    hist.raised /\ d.pc = "sleep" /\ d.wake_at <= env.max_time

\* C20: an exception raised while a tenant is processed does not end the
\* daemon: it goes to sleep for the check interval and, under fairness,
\* starts another sweep when the sleep is over (as far as the clock is
\* explored), and so on after every exception.
C20_DaemonSurvivesExceptions ==
    /\ [][SweepRaises => /\ d'.pc = "sleep"
                         /\ d'.wake_at = now + env.CLEANUP_CHECK_INTERVAL]_vars
    /\ SleepsAfterException ~> (d.pc = "tenants")
    /\ (d.pc \notin {"sleep", "tenants"}) ~> (d.pc \in {"sleep", "tenants"})

\* A sweep is under way after the sweep before it ended in an exception.
C20_Witness == hist.raised /\ d.pc = "tenants" /\ d.tenants # {}

\* The daemon's tenant phase starts the eviction cascade in this step.
DaemonEvicts == d.pc = "purge" /\ d'.pc = "unload"

\* C21 as stated: when the daemon deletes a session, the session's activity
\* record is still older than the session threshold at that moment, and when
\* it starts to evict a tenant, the tenant's activity record is still older
\* than the tenant threshold: no update of the record falls between the
\* daemon's read and its delete.
C21_IdleWhenDeleted ==
    [][/\ DaemonDeletes =>
              /\ ~Falsy(get_session_last_activity(redis, d.tenant, d.session))
              /\ d.current_time - get_session_last_activity(redis, d.tenant, d.session)
                     > env.SESSION_IDLE_TIMEOUT
       /\ DaemonEvicts => TenantIdle(redis, d)]_vars

\* The daemon has read a session's last activity and found it idle; before
\* the delete a handler has stored the first message of a new log of that
\* session, which set the activity record to the present.
C21_Witness ==
    /\ d.pc = "session_check" /\ SessionIdle(d)
    /\ get_session_last_activity(redis, d.tenant, d.session) = now
    /\ Len(LogOf(redis, d.tenant, d.session)) > 0

\* A cascade for the tenant stopped after delete_all_tenant_data: the sweep
\* ended in the except clause, the tenant's data and activity record are
\* gone, its handles are still registered; the daemon sleeps, and the clock
\* explored reaches the end of that sleep.
PartialPurge(T) ==
    /\ hist.raised /\ d.pc = "sleep" /\ d.wake_at <= env.max_time
    /\ DOMAIN get_all_for_tenant(models, T) # {}
    /\ T \notin DOMAIN redis.tenant_activity

\* C22 as stated: a tenant left partially purged is evicted by a later sweep
\* (its handles are removed) unless a new request for it arrives first.
C22_PartialPurgeIsCompleted ==
    \A T \in PlainTenants :
        PartialPurge(T) ~> (DOMAIN get_all_for_tenant(models, T) = {}
                            \/ T \in DOMAIN redis.tenant_activity)

\* A later sweep has looked at a partially purged tenant and gone on to the
\* next: the tenant still has its handles and no activity record.
C22_Witness ==
    /\ hist.raised /\ d.pc = "tenants" /\ d.current_time > 0
    /\ \E T \in PlainTenants :
           /\ T \in get_all_tenants(hist.sweep.models)
           /\ T \notin d.tenants
           /\ DOMAIN get_all_for_tenant(models, T) # {}
           /\ T \notin DOMAIN redis.tenant_activity

\* C23 as stated: register_model never replaces a handle that is in the
\* registry; an entry for (tenant, purpose) is written only while the
\* registry has none for that key.
C23_NoHandleOverwritten ==
    [][\A k \in DOMAIN models : k \in DOMAIN models' => models'[k] = models[k]]_vars

\* Two handlers provision the same tenant at once: the registry holds the
\* handle one of them registered for a purpose, and the other is about to
\* load the row of that purpose.
C23_Witness ==
    /\ th["w1"].pc = "load" /\ th["w2"].pc = "load"
    /\ th["w1"].tenant = th["w2"].tenant
    /\ th["w2"].rows # <<>>
    /\ \E h \in get_model(models, th["w2"].tenant,
                          env.model_config[Head(th["w2"].rows)].Purpose) :
           h.obj[1] = th["w1"].gen

IsPrefix(s, t) == Len(s) <= Len(t) /\ SubSeq(t, 1, Len(s)) = s

\* The step is one that may remove the log of (TenantId, SessionId): its
\* expiry is due, or the daemon or /api/session/end deletes the session, or
\* the daemon purges the tenant.
MayRemove(TenantId, SessionId) ==
    \/ ExpiryDue(redis, TenantId, SessionId, now)
    \/ DaemonDeletes /\ d.tenant = TenantId /\ d.session = SessionId
    \/ EndpointDeletes /\ \E x \in hist'.deleted : x.tenant = TenantId /\ x.session = SessionId
    \/ DaemonEvicts /\ d.tenant = TenantId

\* C24: in every step that is not an expiry, a delete_session or a purge of
\* the session, the session's log before the step is a prefix of its log
\* after the step: messages are only appended, never edited, reordered or
\* removed one by one.
C24_LogIsAppendOnly ==
    [][\A p \in Pairs : ~MayRemove(p[1], p[2]) =>
           IsPrefix(LogOf(redis, p[1], p[2]), LogOf(redis', p[1], p[2]))]_vars

\* A second message was appended to a log whose first message was stored at
\* an earlier time.
C24_Witness ==
    \E p \in Pairs :
        /\ Len(LogOf(redis, p[1], p[2])) = 2
        /\ LogOf(redis, p[1], p[2])[1].timestamp < LogOf(redis, p[1], p[2])[2].timestamp

\* The (tenant, session) pairs a request can name.
NamedPairs == {<<T, S>> : T \in env.tenants, S \in SessionHeaders \ {<<>>}}

\* What the store holds for one tenant: its logs and their expiry entries, its
\* session activity records, its counter and its activity record.
TenantState(R, T) ==
    [logs |-> [S \in SessionHeaders \ {<<>>} |-> LogOf(R, T, S)],
     expiry |-> [S \in SessionHeaders \ {<<>>} |->
                     Get(R.key_expires_at, get_messages_key(T, S), NoTime)],
     sessions |-> [S \in SessionHeaders \ {<<>>} |->
                     Get(R.session_activity, <<T, S>>, NoTime)],
     counter |-> Get(R.active_sessions_by_tenant, T, NoTime),
     activity |-> Get(R.tenant_activity, T, NoTime)]

\* C25: delete_all_tenant_data(T) changes the state of T only: the logs, the
\* expiry entries, the session activity records, the counter and the activity
\* record of every other tenant are the same after the purge as before, also
\* for a tenant whose id is T followed by ':' and more.
C25_PurgeTouchesOneTenant ==
    [][DaemonEvicts =>
           \A T \in env.tenants \ {d.tenant} :
               TenantState(redis', T) = TenantState(redis, T)]_vars

\* The daemon is about to purge t1 while the tenant "t1:session:a" has a log.
C25_Witness ==
    /\ d.pc = "purge"
    /\ d.tenant = T1
    /\ \E S \in SessionHeaders \ {<<>>} : Len(LogOf(redis, ColonTenant, S)) > 0

\* C26: two different (tenant, session) pairs of non-blank ids never address
\* the same message log, whatever the ids contain: a log in the store is the
\* log of one pair only.
C26_PairsAddressDistinctLogs ==
    \A p \in NamedPairs, q \in NamedPairs :
        /\ p # q
        /\ validate_tenant_session(p[1], p[2])
        /\ validate_tenant_session(q[1], q[2])
        /\ get_messages_key(p[1], p[2]) \in DOMAIN redis.messages_by_key
        => get_messages_key(q[1], q[2]) # get_messages_key(p[1], p[2])

\* A request of tenant t1 that names the session "a:session:s1" has passed the
\* exists test of /api/search, though t1 never stored anything there.
C26_Witness ==
    \E t \in Threads :
        /\ th[t].pc # "idle"
        /\ th[t].tenant = T1
        /\ th[t].session = ColonSession
        /\ <<T1, ColonSession>> \notin DOMAIN hist.calls

\* C27: when two handlers call get_or_create_service for a tenant that has no
\* cached service, the tenant is provisioned once: load_tenant_models never
\* runs for one tenant in two handlers at a time, and the service a handler
\* caches is never replaced by another one.
C27_ProvisionedOnce ==
    /\ \A t \in Threads, u \in Threads :
           t # u /\ th[t].pc = "load" /\ th[u].pc = "load"
           => th[t].tenant # th[u].tenant
    /\ \A t \in Threads :
           th[t].pc = "load" => ~service_cached(tenant_services, th[t].tenant)

\* Two handlers of one tenant are both about to test the cache, which is empty.
C27_Witness ==
    /\ th["w1"].pc = "goc"
    /\ th["w2"].pc = "goc"
    /\ th["w1"].tenant = th["w2"].tenant
    /\ ~service_cached(tenant_services, th["w1"].tenant)

\* The instants of the explored clock.
Instants == {StartTime + k * Tick : k \in 0..MaxTicks}

HoldsHandles(T) == DOMAIN get_all_for_tenant(models, T) # {}

\* The daemon sleeps, and a sweep of the explored clock begins later than
\* TENANT_IDLE_TIMEOUT after the instant v.
SweepComesAfter(v) ==
    /\ d.pc = "sleep"
    /\ env.CLEANUP_CHECK_INTERVAL <= Tick
    /\ \E s \in Instants :
           /\ s <= env.max_time /\ s >= now /\ s >= d.wake_at
           /\ s - v > env.TENANT_IDLE_TIMEOUT

\* C28 as stated: under fairness of the daemon, a tenant that holds a registry
\* handle and gets no further request is evicted in the end: either its
\* handles are removed, or a request later than its last one arrives.  The
\* last request is the tenant's activity record; where the record is gone, a
\* further request is one that writes it again.
C28_IdleTenantIsEvicted ==
    \A T \in PlainTenants :
        /\ \A v \in Instants :
               (/\ HoldsHandles(T)
                /\ get_tenant_last_activity(redis, T) = v
                /\ SweepComesAfter(v))
               ~> (~HoldsHandles(T) \/ get_tenant_last_activity(redis, T) > v)
        /\ (/\ HoldsHandles(T)
            /\ Falsy(get_tenant_last_activity(redis, T))
            /\ d.pc = "sleep" /\ d.wake_at <= env.max_time)
           ~> (~HoldsHandles(T) \/ ~Falsy(get_tenant_last_activity(redis, T)))

\* A handler that was in flight while its tenant was purged has provisioned
\* the tenant again, and a later sweep has passed the tenant by: it holds
\* handles and a cached service, and has no activity record.
C28_Witness ==
    /\ d.pc = "tenants"
    /\ T1 \in get_all_tenants(hist.sweep.models)
    /\ T1 \notin d.tenants
    /\ T1 \notin DOMAIN hist.sweep.redis.tenant_activity
    /\ HoldsHandles(T1)
    /\ service_cached(tenant_services, T1)
    /\ Falsy(get_tenant_last_activity(redis, T1))

\* C29: every (tenant, session) whose message log is not empty has a session
\* activity record, so get_session_keys of the tenant lists the session of
\* every log of the tenant that a read would return.
C29_LiveLogHasActivityRecord ==
    \A p \in NamedPairs :
        Len(LogOf(redis, p[1], p[2])) > 0
        => /\ p \in DOMAIN redis.session_activity
           /\ p[2] \in get_session_keys(redis, p[1])

\* A handler of tenant t1 has appended to the log it addresses as session
\* "a:session:s1": the log has two messages and t1 has no session at all.
C29_Witness ==
    /\ Len(LogOf(redis, T1, ColonSession)) = 2
    /\ <<T1, ColonSession>> \in DOMAIN hist.calls
    /\ get_session_keys(redis, T1) = {}

\* A store method raised ValueError in this step.
ValueErrorRaised == hist'.error # {} /\ hist'.error # hist.error

\* C30: store_message, get_all_messages and delete_session called with an
\* empty or blank tenant or session id raise ValueError and change nothing in
\* the store.  A handler whose ids are blank ends at its first call with the
\* store as it was; /api/session/end with a blank id leaves the store as
\* tenant_middleware left it and deletes nothing; and ValueError is raised
\* for blank ids only.
C30_BlankIdsAreRejected ==
    [][/\ \A t \in Threads :
              /\ th[t].pc = "body"
              /\ th'[t] # th[t]
              /\ Blank(th[t].tenant) \/ Blank(th[t].session)
              => /\ th'[t].pc = "idle"
                 /\ redis' = redis
       /\ ValueErrorRaised =>
              \A x \in hist'.error :
                  /\ Blank(x.tenant) \/ Blank(x.session)
                  /\ redis' = IF x.method = "delete_session"
                              THEN update_tenant_activity(redis, x.tenant, now)
                              ELSE redis
       /\ EndpointDeletes =>
              \A x \in hist'.deleted : ~Blank(x.tenant) /\ ~Blank(x.session)]_vars

\* While a session of t1 has a log, a handler of the blank tenant has called
\* store_message, which raised.
C30_Witness ==
    /\ \E S \in SessionHeaders \ {<<>>} : Len(LogOf(redis, T1, S)) > 0
    /\ \E x \in hist.error :
           x.method = "store_message" /\ x.tenant = BlankTenant /\ ~Blank(x.session)

====
